---- MODULE Spec2Model ----
(***************************************************************************)
(* Model of backend/app.py: the HTTP handlers of the course-materials RAG  *)
(* chatbot and the session map they read and (through rag_system) write.   *)
(*                                                                         *)
(* Strings are sequences of one-character strings, so that split('_'),     *)
(* int(...), slicing and len(...) are computed as the code computes them.  *)
(* The session manager and rag_system.query live outside backend/app.py;   *)
(* they are modelled from the specification (create_session, append,       *)
(* the answer path of section 4.5).                                        *)
(***************************************************************************)
EXTENDS Integers, Sequences, FiniteSets, TLC

VARIABLES sessions, session_keys, session_counter, pc, req, before, loop, response

vars == <<sessions, session_keys, session_counter, pc, req, before, loop, response>>

(***************************************************************************)
(* Bounds of the model.                                                    *)
(***************************************************************************)
\* Spec: create_session is called at most this many times.
MaxCounter == 2
\* Spec: at most this many turns (user + assistant message) are stored.
MaxTurns == 2
\* SpecListing: create_session is called at most this many times.
MaxListed == 11

(***************************************************************************)
(* Program constants.                                                      *)
(***************************************************************************)
\* sorted_session_ids[:10]
HistoryLimit == 10
\* first_user_msg[:50]
TitleSlice == 50
\* len(first_user_msg) > 50
TitleLimit == 50

\* The two request slots: two POST /api/query calls may be in flight.
Requests == {"r1", "r2"}
NoRequest == "none"

(***************************************************************************)
(* Strings.                                                                *)
(***************************************************************************)
Digits == <<"0", "1", "2", "3", "4", "5", "6", "7", "8", "9">>

IsDigit(c) == \E d \in 1..10 : Digits[d] = c

DigitVal(c) == (CHOOSE d \in 1..10 : Digits[d] = c) - 1

Repeat(c, n) == [i \in 1..n |-> c]

\* str(n) for n >= 0
RECURSIVE IntToStr(_)
IntToStr(n) ==
    IF n < 10 THEN <<Digits[n + 1]>>
    ELSE Append(IntToStr(n \div 10), Digits[(n % 10) + 1])

\* s.split(sep): the pieces of s between the occurrences of sep
RECURSIVE SplitFrom(_, _, _)
SplitFrom(s, sep, cur) ==
    IF s = <<>> THEN <<cur>>
    ELSE IF Head(s) = sep THEN <<cur>> \o SplitFrom(Tail(s), sep, <<>>)
    ELSE SplitFrom(Tail(s), sep, Append(cur, Head(s)))

Split(s, sep) == SplitFrom(s, sep, <<>>)

\* int(s) succeeds (strings of the model hold no sign, blank or digit separator)
IsIntLiteral(s) == s # <<>> /\ \A i \in 1..Len(s) : IsDigit(s[i])

RECURSIVE ParseInt(_)
ParseInt(s) ==
    IF s = <<>> THEN 0
    ELSE ParseInt(SubSeq(s, 1, Len(s) - 1)) * 10 + DigitVal(s[Len(s)])


\* s[:n]
Take(s, n) == SubSeq(s, 1, IF Len(s) < n THEN Len(s) ELSE n)

(***************************************************************************)
(* Request inputs.                                                         *)
(***************************************************************************)
\* QueryRequest.session_id: Optional[str]
NoSessionId == [given |-> FALSE, id |-> <<>>]
SomeSessionId(s) == [given |-> TRUE, id |-> s]

\* namespace prefix of the identifiers create_session allocates
SessionPrefix == <<"s", "e", "s", "s", "i", "o", "n">>

\* session identifiers a caller may send: the empty string, an identifier the
\* allocator also produces, one with the same number under another prefix, one
\* without an underscore
SuppliedIds ==
    { <<>>,
      SessionPrefix \o <<"_", "1">>,
      <<"c", "_", "1">>,
      <<"a", "b", "c">> }

\* query texts: empty, short, exactly TitleLimit characters, one more
Queries == { <<>>, <<"h", "i">>, Repeat("x", TitleLimit), Repeat("y", TitleLimit + 1) }

\* SpecListing sends one query text and never a session identifier
ListingQueries == { <<"h", "i">> }

(***************************************************************************)
(* Session store (session_manager), modelled from the specification.       *)
(***************************************************************************)
\* f"{prefix}_{counter}"
SessionId(n) == SessionPrefix \o <<"_">> \o IntToStr(n)

Message(role, content) == [role |-> role, content |-> content]

HasKey(keys, k) == \E i \in 1..Len(keys) : keys[i] = k

\* d[k] = v on the dict's values
PutSession(s, k, v) == [x \in DOMAIN s \cup {k} |-> IF x = k THEN v ELSE s[x]]

\* d[k] = v on the dict's key order: a new key goes last, a known key keeps its place
PutKey(keys, k) == IF HasKey(keys, k) THEN keys ELSE Append(keys, k)

\* append(session_id, role, content): creates the session when it is unknown
AddMessage(s, sid, role, content) ==
    PutSession(s, sid,
               Append(IF sid \in DOMAIN s THEN s[sid] ELSE <<>>, Message(role, content)))

\* the text the generation backend returns for a query (a black box; the model
\* tags the answer with its query so that a turn's two messages can be paired)
Generate(q) == <<"A", ":">> \o q

(***************************************************************************)
(* GET /api/chat-history                                                   *)
(***************************************************************************)
\* int(x.split('_')[1]) raises IndexError or ValueError
SortKeyRaises(x) ==
    LET parts == Split(x, "_")
    IN  Len(parts) < 2 \/ ~IsIntLiteral(parts[2])

\* key=lambda x: int(x.split('_')[1])
SortKey(x) == ParseInt(Split(x, "_")[2])

\* the identifiers with their sort keys, each key computed once
Keyed(keys) == [i \in 1..Len(keys) |-> [id |-> keys[i], n |-> SortKey(keys[i])]]

\* position of the first element of ks whose sort key is the largest
FirstMax(ks) ==
    CHOOSE i \in 1..Len(ks) :
        /\ \A j \in 1..Len(ks) : ks[j].n <= ks[i].n
        /\ \A j \in 1..(i - 1) : ks[j].n < ks[i].n

RECURSIVE SortedKeyed(_)
SortedKeyed(ks) ==
    IF ks = <<>> THEN <<>>
    ELSE LET i == FirstMax(ks)
         IN  <<ks[i].id>> \o SortedKeyed(SubSeq(ks, 1, i - 1) \o SubSeq(ks, i + 1, Len(ks)))

\* the sort without reverse=True: ascending
SortedAsc(keys) ==
    LET d == SortedKeyed(Keyed(keys))
    IN  [i \in 1..Len(d) |-> d[Len(d) + 1 - i]]

\* sorted(keys, key=SortKey, reverse=True): stable, equal keys keep dict order
SortedDesc(keys) == SortedKeyed(Keyed(keys))

\* the for/break loop: the first message with role "user", None when there is none
RECURSIVE FirstUserMsg(_)
FirstUserMsg(messages) ==
    IF messages = <<>> THEN [found |-> FALSE, content |-> <<>>]
    ELSE IF Head(messages).role = "user"
         THEN [found |-> TRUE, content |-> Head(messages).content]
         ELSE FirstUserMsg(Tail(messages))

Ellipsis == <<".", ".", ".">>

\* the ellipsis added from 50 characters on (>= for >)
TitleOffByOne(m) == Take(m, TitleSlice) \o (IF Len(m) >= TitleLimit THEN Ellipsis ELSE <<>>)

\* title = first_user_msg[:50]; if len(first_user_msg) > 50: title += "..."
Title(m) == Take(m, TitleSlice) \o (IF Len(m) > TitleLimit THEN Ellipsis ELSE <<>>)

ChatHistoryItem(sid, title, n) == [session_id |-> sid, title |-> title, message_count |-> n]

\* the body of the loop over the sliced identifiers
RECURSIVE Chats(_, _)
Chats(s, ids) ==
    IF ids = <<>> THEN <<>>
    ELSE LET sid == Head(ids)
             messages == s[sid]
             first == FirstUserMsg(messages)
         IN  IF messages = <<>> THEN Chats(s, Tail(ids))
             ELSE IF first.found /\ first.content # <<>>
                  THEN <<ChatHistoryItem(sid, Title(first.content), Len(messages))>>
                       \o Chats(s, Tail(ids))
                  ELSE Chats(s, Tail(ids))

\* the identifiers the loop visits: sorted_session_ids[:10]
Recent(keys) == Take(SortedDesc(keys), HistoryLimit)

\* get_chat_history(): the response for a session map
ChatHistory(s, keys) ==
    IF \E i \in 1..Len(keys) : SortKeyRaises(keys[i])
    THEN [status |-> 500, chats |-> <<>>]
    ELSE [status |-> 200, chats |-> Chats(s, Recent(keys))]

(***************************************************************************)
(* GET /api/chat/{session_id}                                              *)
(***************************************************************************)
\* {"role": msg.role, "content": msg.content} for msg in messages
Transcript(messages) ==
    [i \in 1..Len(messages) |-> [role |-> messages[i].role, content |-> messages[i].content]]

\* without "except HTTPException: raise" the 404 is caught and becomes a 500
ChatConversationGeneric(s, sid) ==
    IF sid \notin DOMAIN s
    THEN [status |-> 500, session_id |-> sid, messages |-> <<>>]
    ELSE [status |-> 200, session_id |-> sid, messages |-> Transcript(s[sid])]

\* the transcript cut to the last two messages, as a bounded history would be
ChatConversationWindowed(s, sid) ==
    IF sid \notin DOMAIN s
    THEN [status |-> 404, session_id |-> sid, messages |-> <<>>]
    ELSE [status |-> 200, session_id |-> sid,
          messages |-> Transcript(IF Len(s[sid]) <= 2 THEN s[sid]
                                  ELSE SubSeq(s[sid], Len(s[sid]) - 1, Len(s[sid])))]

\* get_chat_conversation(session_id): the response for a session map
ChatConversation(s, sid) ==
    IF sid \notin DOMAIN s
    THEN [status |-> 404, session_id |-> sid, messages |-> <<>>]
    ELSE [status |-> 200, session_id |-> sid, messages |-> Transcript(s[sid])]

(***************************************************************************)
(* POST /api/query                                                         *)
(***************************************************************************)
NoReq == [supplied |-> NoSessionId, session_id |-> <<>>, query |-> <<>>, answer |-> <<>>]
\* the response of the handler that ran last, cleared when a query is received;
\* asked is the session_id of the request it answers (kept beside the response)
NoResponse == [op |-> "none", status |-> 0, session_id |-> <<>>, asked |-> NoSessionId]
NoSessions == [x \in {} |-> <<>>]

\* if not session_id: None and the empty string both ask for a new session
NeedsSession(opt) == ~opt.given \/ opt.id = <<>>

\* the handler gives up the event loop at each call it makes
SuspendsAtCalls(step) == step \in {"start", "generate", "append_user", "append_assistant"}

\* the handler has no await: it keeps the event loop from its first step to its last
Suspends(step) == FALSE

\* request r may take a step: it holds the event loop, or nobody does
CanRun(r) == loop = r \/ loop = NoRequest

\* the event loop after a step of request r
LoopAfter(r, step) == IF Suspends(step) THEN NoRequest ELSE r

\* a request arriving takes the first free slot: r2 only while r1 is in flight
FirstFree(r) == r = "r1" \/ pc["r1"] # "idle"

\* the exception swallowed: the failed call answers like a successful one
QueryFailureSwallowed(rq) ==
    [op |-> "query", status |-> 200, session_id |-> rq.session_id, asked |-> rq.supplied]

\* raise HTTPException(status_code=500, detail=str(e))
QueryFailureResponse(rq) ==
    [op |-> "query", status |-> 500, session_id |-> <<>>, asked |-> rq.supplied]

\* the response names request.session_id instead of the session that was used
QueryResponseEchoesRequest(rq) ==
    [op |-> "query", status |-> 200, session_id |-> rq.supplied.id, asked |-> rq.supplied]

\* QueryResponse(answer=answer, sources=sources, session_id=session_id); the
\* answer and the sources are left out of the model's response
QueryResponse(rq) ==
    [op |-> "query", status |-> 200, session_id |-> rq.session_id, asked |-> rq.supplied]

\* number of messages the store holds
RECURSIVE StoredMessages(_, _)
StoredMessages(s, keys) ==
    IF keys = <<>> THEN 0 ELSE Len(s[Head(keys)]) + StoredMessages(s, Tail(keys))

\* session_id = request.session_id; if not session_id: session_id = create_session()
QueryStart(r, opt, q, maxCounter, maxMessages) ==
    /\ pc[r] = "idle"
    /\ loop = NoRequest
    /\ FirstFree(r)
    /\ StoredMessages(sessions, session_keys) + 2 <= maxMessages
    /\ IF NeedsSession(opt)
       THEN /\ session_counter < maxCounter
            /\ session_counter' = session_counter + 1
            /\ sessions' = PutSession(sessions, SessionId(session_counter'), <<>>)
            /\ session_keys' = PutKey(session_keys, SessionId(session_counter'))
            /\ req' = [req EXCEPT ![r] = [supplied |-> opt,
                                          session_id |-> SessionId(session_counter'),
                                          query |-> q, answer |-> <<>>]]
       ELSE /\ req' = [req EXCEPT ![r] = [supplied |-> opt, session_id |-> opt.id,
                                          query |-> q, answer |-> <<>>]]
            /\ UNCHANGED <<sessions, session_keys, session_counter>>
    /\ before' = [before EXCEPT ![r] = sessions]
    /\ pc' = [pc EXCEPT ![r] = "query"]
    /\ loop' = LoopAfter(r, "start")
    /\ response' = NoResponse

\* rag_system.query raises: except Exception -> HTTP 500
QueryFail(r) ==
    /\ pc[r] = "query"
    /\ CanRun(r)
    /\ response' = QueryFailureResponse(req[r])
    /\ pc' = [pc EXCEPT ![r] = "idle"]
    /\ req' = [req EXCEPT ![r] = NoReq]
    /\ before' = [before EXCEPT ![r] = NoSessions]
    /\ loop' = NoRequest
    /\ UNCHANGED <<sessions, session_keys, session_counter>>

\* rag_system.query: history, retrieval and generation succeed
QueryGenerate(r) ==
    /\ pc[r] = "query"
    /\ CanRun(r)
    /\ req' = [req EXCEPT ![r].answer = Generate(req[r].query)]
    /\ pc' = [pc EXCEPT ![r] = "append_user"]
    /\ loop' = LoopAfter(r, "generate")
    /\ UNCHANGED <<sessions, session_keys, session_counter, before, response>>

\* rag_system.query: append the user's query
QueryAppendUser(r) ==
    /\ pc[r] = "append_user"
    /\ CanRun(r)
    /\ sessions' = AddMessage(sessions, req[r].session_id, "user", req[r].query)
    /\ session_keys' = PutKey(session_keys, req[r].session_id)
    /\ pc' = [pc EXCEPT ![r] = "append_assistant"]
    /\ loop' = LoopAfter(r, "append_user")
    /\ UNCHANGED <<session_counter, req, before, response>>

\* rag_system.query: append the answer
QueryAppendAssistant(r) ==
    /\ pc[r] = "append_assistant"
    /\ CanRun(r)
    /\ sessions' = AddMessage(sessions, req[r].session_id, "assistant", req[r].answer)
    /\ session_keys' = PutKey(session_keys, req[r].session_id)
    /\ pc' = [pc EXCEPT ![r] = "return"]
    /\ loop' = LoopAfter(r, "append_assistant")
    /\ UNCHANGED <<session_counter, req, before, response>>

\* return QueryResponse(answer=answer, sources=sources, session_id=session_id)
QueryReturn(r) ==
    /\ pc[r] = "return"
    /\ CanRun(r)
    /\ response' = QueryResponse(req[r])
    /\ pc' = [pc EXCEPT ![r] = "idle"]
    /\ req' = [req EXCEPT ![r] = NoReq]
    /\ before' = [before EXCEPT ![r] = NoSessions]
    /\ loop' = NoRequest
    /\ UNCHANGED <<sessions, session_keys, session_counter>>

\* GET /api/chat-history
GetChatHistory ==
    /\ loop = NoRequest
    /\ response' = [op |-> "history",
                    status |-> ChatHistory(sessions, session_keys).status,
                    session_id |-> <<>>,
                    asked |-> NoSessionId]
    /\ UNCHANGED <<sessions, session_keys, session_counter, pc, req, before, loop>>

\* GET /api/chat/{session_id}
GetChatConversation(sid) ==
    /\ loop = NoRequest
    /\ response' = [op |-> "chat",
                    status |-> ChatConversation(sessions, sid).status,
                    session_id |-> ChatConversation(sessions, sid).session_id,
                    asked |-> NoSessionId]
    /\ UNCHANGED <<sessions, session_keys, session_counter, pc, req, before, loop>>

\* the identifiers GET /api/chat/{session_id} is asked for
ChatIds == (SuppliedIds \ {<<>>}) \cup {SessionId(n) : n \in 1..MaxCounter}

SessionIdInputs == {NoSessionId} \cup {SomeSessionId(s) : s \in SuppliedIds}

Init ==
    /\ sessions = NoSessions
    /\ session_keys = <<>>
    /\ session_counter = 0
    /\ pc = [r \in Requests |-> "idle"]
    /\ req = [r \in Requests |-> NoReq]
    /\ before = [r \in Requests |-> NoSessions]
    /\ loop = NoRequest
    /\ response = NoResponse

Next ==
    \/ \E r \in Requests, opt \in SessionIdInputs, q \in Queries :
          QueryStart(r, opt, q, MaxCounter, 2 * MaxTurns)
    \/ \E r \in Requests : QueryFail(r)
    \/ \E r \in Requests : QueryGenerate(r)
    \/ \E r \in Requests : QueryAppendUser(r)
    \/ \E r \in Requests : QueryAppendAssistant(r)
    \/ \E r \in Requests : QueryReturn(r)
    \/ GetChatHistory
    \/ \E sid \in ChatIds : GetChatConversation(sid)

Spec == Init /\ [][Next]_vars

\* many sessions, each allocated by the server: one request slot, one query text
NextListing ==
    \/ \E q \in ListingQueries : QueryStart("r1", NoSessionId, q, MaxListed, 2 * MaxListed)
    \/ QueryFail("r1")
    \/ QueryGenerate("r1")
    \/ QueryAppendUser("r1")
    \/ QueryAppendAssistant("r1")
    \/ QueryReturn("r1")
    \/ GetChatHistory

SpecListing == Init /\ [][NextListing]_vars

(***************************************************************************)
(* Properties.                                                             *)
(***************************************************************************)
\* the listing GET /api/chat-history returns in the current state
Listing == ChatHistory(sessions, session_keys)

\* the identifiers of a listing, in order
ListedIds(chats) == [i \in 1..Len(chats) |-> chats[i].session_id]

\* the content of the message at the smallest index whose role is "user"
FirstUserContent(messages) ==
    LET i == CHOOSE k \in 1..Len(messages) :
                 /\ messages[k].role = "user"
                 /\ \A j \in 1..(k - 1) : messages[j].role # "user"
    IN  messages[i].content

HasMessages(sid) == sessions[sid] # <<>>

\* C1: when no handler is running, the listing holds exactly the first
\* min(10, m) of the m sessions that have a message, in descending order of the
\* numeric suffix of the identifier (filter first, then limit).
C1_ListsTenMostRecentNonEmpty ==
    (loop = NoRequest /\ Listing.status = 200) =>
        ListedIds(Listing.chats) = Take(SelectSeq(SortedDesc(session_keys), HasMessages), 10)

\* C10: in every reachable state GET /api/chat-history answers with a listing
\* (status 200), never with a failure.
C10_HistoryNeverFails == Listing.status = 200

C3_UnknownSessionIsNotFound ==
    [][(response'.op = "chat" /\ response' # response) =>
           /\ response'.session_id \notin DOMAIN sessions => response'.status = 404
           /\ response'.session_id \in DOMAIN sessions => response'.status = 200
           /\ sessions' = sessions
           /\ session_keys' = session_keys]_vars

\* C3 witness: a transcript was asked for an unknown identifier while other
\* sessions exist, and the answer was 404.
C3_Witness ==
    /\ response.op = "chat"
    /\ response.status = 404
    /\ response.session_id \notin DOMAIN sessions
    /\ DOMAIN sessions # {}

\* C8: every listed title is the first user message of its session: unchanged
\* when it has at most 50 characters, else its first 50 characters followed by
\* "...".
C8_TitleTruncation ==
    Listing.status = 200 =>
        \A i \in 1..Len(Listing.chats) :
            LET e == Listing.chats[i]
                m == FirstUserContent(sessions[e.session_id])
            IN  /\ Len(m) <= 50 => e.title = m
                /\ Len(m) > 50 => e.title = SubSeq(m, 1, 50) \o <<".", ".", ".">>

\* C8 witness: the listing holds a title of a 51-character message (cut, with
\* the ellipsis) and the title of a message of exactly 50 characters.
C8_Witness ==
    /\ Listing.status = 200
    /\ \E i, j \in 1..Len(Listing.chats) :
          /\ Len(FirstUserContent(sessions[Listing.chats[i].session_id])) = 51
          /\ Len(Listing.chats[i].title) = 53
          /\ Len(FirstUserContent(sessions[Listing.chats[j].session_id])) = 50
          /\ Len(Listing.chats[j].title) = 50

\* each listed session appears once, with its current number of messages
ListedOnceWithCount(chats) ==
    /\ \A i, j \in 1..Len(chats) : i # j => chats[i].session_id # chats[j].session_id
    /\ \A i \in 1..Len(chats) :
          /\ chats[i].session_id \in DOMAIN sessions
          /\ chats[i].message_count = Len(sessions[chats[i].session_id])

\* C9 as stated: the listing is in strictly descending order of the numeric
\* suffix, each session appears once, message_count is the stored count.
C9_StrictlyDescending ==
    Listing.status = 200 =>
        /\ \A i, j \in 1..Len(Listing.chats) :
              i < j => SortKey(Listing.chats[i].session_id) > SortKey(Listing.chats[j].session_id)
        /\ ListedOnceWithCount(Listing.chats)

\* C9 amended: the listing is in non-increasing order of the numeric suffix
\* (two identifiers with the same suffix may both be listed), each session
\* appears once, message_count is the stored count.
C9_NonIncreasing ==
    Listing.status = 200 =>
        /\ \A i, j \in 1..Len(Listing.chats) :
              i < j => SortKey(Listing.chats[i].session_id) >= SortKey(Listing.chats[j].session_id)
        /\ ListedOnceWithCount(Listing.chats)

\* C9 witness: a listing in which two sessions have the same numeric suffix.
C9_Witness ==
    /\ Listing.status = 200
    /\ \E i \in 1..(Len(Listing.chats) - 1) :
          SortKey(Listing.chats[i].session_id) = SortKey(Listing.chats[i + 1].session_id)

\* the messages of session sid in map s, none when sid is unknown
MessagesOf(s, sid) == IF sid \in DOMAIN s THEN s[sid] ELSE <<>>

\* the messages session sid held when request r's turn began: those before the
\* call, or none when the call allocated the session
Prior(r, sid) ==
    IF NeedsSession(req[r].supplied) /\ sid = req[r].session_id THEN <<>>
    ELSE MessagesOf(before[r], sid)

\* request r's call fails in this step
Fails(r) == pc[r] = "query" /\ pc'[r] = "idle"

\* request r's call returns its answer in this step
Returns(r) == pc[r] = "return" /\ pc'[r] = "idle"

\* C2: when rag_system.query raises for a caller-supplied session id, the call
\* answers 500 and that session is as it was before the call: the same
\* messages, and still unknown if it was unknown.
C2_FailedQueryLeavesSession ==
    [][\A r \in Requests :
           (Fails(r) /\ req[r].supplied.given) =>
               /\ response'.status = 500
               /\ (req[r].supplied.id \in DOMAIN sessions')
                      = (req[r].supplied.id \in DOMAIN before[r])
               /\ MessagesOf(sessions', req[r].supplied.id)
                      = MessagesOf(before[r], req[r].supplied.id)]_vars

\* C2 witness: a query for a caller-supplied session that holds messages has
\* failed.
C2_Witness ==
    /\ response.op = "query"
    /\ response.status = 500
    /\ response.asked.given
    /\ response.asked.id \in DOMAIN sessions
    /\ sessions[response.asked.id] # <<>>

\* C4: when a turn completes, the transcript of its session is the transcript
\* from before the turn followed by the user message and the assistant message,
\* and it has every stored message in order with its role and content.
C4_TranscriptRoundTrip ==
    [][\A r \in Requests :
           Returns(r) =>
               LET sid == response'.session_id
                   c == ChatConversation(sessions', sid)
               IN  /\ c.status = 200
                   /\ c.messages = Prior(r, sid)
                                     \o << [role |-> "user", content |-> req[r].query],
                                           [role |-> "assistant", content |-> req[r].answer] >>
                   /\ Len(c.messages) = Len(sessions'[sid])
                   /\ \A i \in 1..Len(c.messages) :
                          /\ c.messages[i].role = sessions'[sid][i].role
                          /\ c.messages[i].content = sessions'[sid][i].content]_vars

\* C4 witness: a second turn has completed on a session and its transcript has
\* all four messages.
C4_Witness ==
    /\ response.op = "query"
    /\ response.status = 200
    /\ response.session_id \in DOMAIN sessions
    /\ Len(sessions[response.session_id]) = 4
    /\ Len(ChatConversation(sessions, response.session_id).messages) = 4

\* C5: every session's messages are whole turns, a user message directly
\* followed by the answer to it; a user message may be last only while the
\* request that appended it is about to append its answer. And a step changes
\* the messages of no session but the one of the request that takes the step.
C5_TurnsDoNotInterleave ==
    /\ [](\A sid \in DOMAIN sessions :
             LET m == sessions[sid]
             IN  \A i \in 1..Len(m) :
                     IF i % 2 = 1
                     THEN /\ m[i].role = "user"
                          /\ i < Len(m) => m[i + 1] = Message("assistant", Generate(m[i].content))
                          /\ i = Len(m) =>
                                \E r \in Requests :
                                    /\ pc[r] = "append_assistant"
                                    /\ req[r].session_id = sid
                                    /\ req[r].query = m[i].content
                     ELSE m[i].role = "assistant")
    /\ [][\A sid \in DOMAIN sessions :
              (sid \in DOMAIN sessions' /\ sessions'[sid] # sessions[sid]) =>
                  \E r \in Requests :
                      /\ pc'[r] # pc[r]
                      /\ req[r].session_id = sid \/ req'[r].session_id = sid]_vars

\* C5 witness: two turns on the same session have completed.
C5_Witness ==
    \E sid \in DOMAIN sessions : Len(sessions[sid]) = 4 /\ loop = NoRequest

====
